---- MODULE Spec2Model ----
(***************************************************************************)
(* Model of ergogen_helper.py: the three commands copy-traces, lock-traces *)
(* and update-pcb, the trace filters, the merge loop and save_pcb.         *)
(* A board is the ordered sequence of its traces; a trace is its start and *)
(* end point and its locked flag.  The file system is three files: the     *)
(* source board file, the destination (or only) board file and the backup  *)
(* copy that save_pcb makes next to the destination.                       *)
(***************************************************************************)
EXTENDS Integers, Sequences, FiniteSets

\* Longest source / destination board on disk.
MaxSrc == 3
MaxDst == 3

\* exit(-1) as seen by the invoking shell; status of an uncaught exception.
ExitError == 255
ExitUncaught == 1

Points == {<<0, 0>>, <<10, 0>>}

\* Traces of non-zero length between the points, locked or not.
Traces == {t \in [start : Points, end : Points, locked : BOOLEAN] :
             t.start # t.end}

Boards(n) == UNION {[1..k -> Traces] : k \in 0..n}

Absent == [state |-> "absent", content |-> <<>>]
Corrupt == [state |-> "corrupt", content |-> <<>>]
Intact(b) == [state |-> "ok", content |-> b]
Files(n) == {Absent, Corrupt} \cup {Intact(b) : b \in Boards(n)}

Cmds == {"copy-traces", "lock-traces", "update-pcb"}

NoExc == [type |-> "none", msg |-> ""]
ErgogenHelperException(m) == [type |-> "ErgogenHelperException", msg |-> m]
\* Any exception of the board-file provider that is not wrapped.
ProviderException(m) == [type |-> "Exception", msg |-> m]

Line(k, m, a, b) == [kind |-> k, msg |-> m, n |-> a, total |-> b]

VARIABLES
  cmd,            \* args.cmd
  unlocked_only,  \* args.unlocked_only
  no_backup,      \* args.no_backup
  pc,             \* position of the command
  src_pcb,        \* traces of src_pcb
  dst_pcb,        \* traces of dst_pcb (copy-traces) or pcb (the other two)
  traces,         \* local `traces` of copy_traces
  traces_total,   \* local of copy_traces
  locked_num,     \* local of copy_traces
  existing_num,   \* local of copy_traces
  i,              \* position of the insertion loop in `traces`
  exc,            \* the exception in flight or handled
  stdout,         \* lines printed
  exit_status,    \* process status once pc = "exited"
  disk_src,       \* file at args.src_pcb_path
  disk_dst,       \* file at args.dst_pcb_path / args.pcb_path
  disk_bak,       \* file at the backup path
  fs_log          \* file-system writes attempted by save_pcb, in order

vars == <<cmd, unlocked_only, no_backup, pc, src_pcb, dst_pcb, traces,
          traces_total, locked_num, existing_num, i, exc, stdout,
          exit_status, disk_src, disk_dst, disk_bak, fs_log>>

args == <<cmd, unlocked_only, no_backup>>
locals == <<traces, traces_total, locked_num, existing_num, i>>
disk == <<disk_src, disk_dst, disk_bak, fs_log>>

----------------------------------------------------------------------------
\* Pure functions

check_traces_equal(trace_1, trace_2) ==
  IF trace_1.start = trace_2.start /\ trace_1.end = trace_2.end
    THEN TRUE
    ELSE FALSE

\* Variant: the scan starts at the second trace of the board.
pcb_has_trace_skip_first(pcb, lookup_trace) ==
  \E k \in 2..Len(pcb) : check_traces_equal(lookup_trace, pcb[k]) = TRUE

pcb_has_trace(pcb, lookup_trace) ==
  \E k \in 1..Len(pcb) : check_traces_equal(lookup_trace, pcb[k]) = TRUE

\* Variant: a candidate is also dropped when an earlier candidate equals it.
filter_existing_traces_dedup(ts, pcb) ==
  LET keep == {k \in 1..Len(ts) :
                 /\ pcb_has_trace(pcb, ts[k]) = FALSE
                 /\ ~\E j \in 1..(k - 1) : check_traces_equal(ts[k], ts[j])}
      F[k \in 0..Len(ts)] ==
        IF k = 0 THEN <<>>
        ELSE IF k \in keep THEN Append(F[k - 1], ts[k]) ELSE F[k - 1]
  IN  [removed_count |-> Len(ts) - Len(F[Len(ts)]),
       filtered_traces |-> F[Len(ts)]]

filter_existing_traces(ts, pcb) ==
  LET filtered_traces == SelectSeq(ts, LAMBDA t : pcb_has_trace(pcb, t) = FALSE)
  IN  [removed_count |-> Len(ts) - Len(filtered_traces),
       filtered_traces |-> filtered_traces]

\* Variant: the test on IsLocked() is inverted.
filter_locked_traces_inverted(ts) ==
  LET filtered_traces == SelectSeq(ts, LAMBDA t : t.locked = TRUE)
  IN  [removed_count |-> Len(ts) - Len(filtered_traces),
       filtered_traces |-> filtered_traces]

filter_locked_traces(ts) ==
  LET filtered_traces == SelectSeq(ts, LAMBDA t : t.locked = FALSE)
  IN  [removed_count |-> Len(ts) - Len(filtered_traces),
       filtered_traces |-> filtered_traces]

\* Variant: the loop stops one trace early.
lock_all_but_last(ts) ==
  [k \in 1..Len(ts) |->
     IF k < Len(ts) THEN [ts[k] EXCEPT !.locked = TRUE] ELSE ts[k]]

lock_all(ts) == [k \in 1..Len(ts) |-> [ts[k] EXCEPT !.locked = TRUE]]

Raise(e) == /\ exc' = e
            /\ pc' = "raised"

----------------------------------------------------------------------------
Init ==
  /\ cmd \in Cmds
  /\ unlocked_only \in (IF cmd = "copy-traces" THEN BOOLEAN ELSE {FALSE})
  /\ no_backup \in BOOLEAN
  /\ pc = IF cmd = "copy-traces" THEN "load_src" ELSE "load_pcb"
  /\ src_pcb = <<>>
  /\ dst_pcb = <<>>
  /\ traces = <<>>
  /\ traces_total = 0
  /\ locked_num = 0
  /\ existing_num = 0
  /\ i = 1
  /\ exc = NoExc
  /\ stdout = <<>>
  /\ exit_status = 0
  /\ disk_src \in (IF cmd = "copy-traces" THEN Files(MaxSrc) ELSE {Absent})
  /\ disk_dst \in Files(MaxDst)
  /\ disk_bak = Absent
  /\ fs_log = <<>>

\* cmd_copy_traces: src_pcb = pcbnew.LoadBoard(args.src_pcb_path)
LoadSrc ==
  /\ pc = "load_src"
  /\ IF disk_src.state = "ok"
       THEN /\ src_pcb' = disk_src.content
            /\ pc' = "load_dst"
            /\ exc' = exc
       ELSE /\ Raise(ProviderException("LoadBoard"))
            /\ src_pcb' = src_pcb
  /\ UNCHANGED <<args, dst_pcb, locals, stdout, exit_status, disk>>

\* cmd_copy_traces: dst_pcb = pcbnew.LoadBoard(args.dst_pcb_path)
LoadDst ==
  /\ pc = "load_dst"
  /\ IF disk_dst.state = "ok"
       THEN /\ dst_pcb' = disk_dst.content
            /\ pc' = "get_traces"
            /\ exc' = exc
       ELSE /\ Raise(ProviderException("LoadBoard"))
            /\ dst_pcb' = dst_pcb
  /\ UNCHANGED <<args, src_pcb, locals, stdout, exit_status, disk>>

\* cmd_lock_traces / cmd_update_pcb: pcb = pcbnew.LoadBoard(args.pcb_path)
LoadPcb ==
  /\ pc = "load_pcb"
  /\ IF disk_dst.state = "ok"
       THEN /\ dst_pcb' = disk_dst.content
            /\ pc' = IF cmd = "lock-traces" THEN "lock" ELSE "save"
            /\ exc' = exc
       ELSE /\ Raise(ProviderException("LoadBoard"))
            /\ dst_pcb' = dst_pcb
  /\ UNCHANGED <<args, src_pcb, locals, stdout, exit_status, disk>>

\* copy_traces: traces = get_traces(src_pcb); traces_total = len(traces)
GetTraces ==
  /\ pc = "get_traces"
  /\ \/ /\ traces' = src_pcb
        /\ traces_total' = Len(src_pcb)
        /\ pc' = "filter_locked"
        /\ exc' = exc
     \/ /\ Raise(ErgogenHelperException("ERROR: Could not get traces"))
        /\ UNCHANGED <<traces, traces_total>>
  /\ UNCHANGED <<args, src_pcb, dst_pcb, locked_num, existing_num, i, stdout,
                 exit_status, disk>>

\* Variant: the lock filter runs whatever unlocked_only is.
FilterLocked_always ==
  /\ pc = "filter_locked"
  /\ LET r == filter_locked_traces(traces)
     IN  /\ locked_num' = r.removed_count
         /\ traces' = r.filtered_traces
         /\ stdout' = IF r.removed_count > 0
                        THEN Append(stdout, Line("WARN", "locked",
                                                 r.removed_count, 0))
                        ELSE stdout
  /\ pc' = "filter_existing"
  /\ UNCHANGED <<args, src_pcb, dst_pcb, traces_total, existing_num, i, exc,
                 exit_status, disk>>

\* copy_traces: the unlocked_only branch
FilterLocked ==
  /\ pc = "filter_locked"
  /\ IF unlocked_only = TRUE
       THEN LET r == filter_locked_traces(traces)
            IN  /\ locked_num' = r.removed_count
                /\ traces' = r.filtered_traces
                /\ stdout' = IF r.removed_count > 0
                               THEN Append(stdout, Line("WARN", "locked",
                                                        r.removed_count, 0))
                               ELSE stdout
       ELSE UNCHANGED <<locked_num, traces, stdout>>
  /\ pc' = "filter_existing"
  /\ UNCHANGED <<args, src_pcb, dst_pcb, traces_total, existing_num, i, exc,
                 exit_status, disk>>

\* copy_traces: existing_num, traces = filter_existing_traces(traces, dst_pcb)
\* pcb_has_trace reads dst_pcb.GetTracks() once per candidate, unguarded.
FilterExisting ==
  /\ pc = "filter_existing"
  /\ \/ LET r == filter_existing_traces(traces, dst_pcb)
        IN  /\ existing_num' = r.removed_count
            /\ traces' = r.filtered_traces
            /\ stdout' = IF r.removed_count > 0
                           THEN Append(stdout, Line("WARN", "existing",
                                                    r.removed_count, 0))
                           ELSE stdout
            /\ i' = 1
            /\ pc' = "add"
            /\ exc' = exc
     \/ /\ Len(traces) > 0
        /\ Raise(ProviderException("GetTracks"))
        /\ UNCHANGED <<existing_num, traces, stdout, i>>
  /\ UNCHANGED <<args, src_pcb, dst_pcb, traces_total, locked_num,
                 exit_status, disk>>

\* Variant: the trace is put at the front of the destination.
AddTrace_prepend ==
  /\ pc = "add"
  /\ i <= Len(traces)
  /\ \/ /\ dst_pcb' = <<traces[i]>> \o dst_pcb
        /\ i' = i + 1
        /\ UNCHANGED <<pc, exc>>
     \/ /\ Raise(ErgogenHelperException("Could not copy trace"))
        /\ UNCHANGED <<dst_pcb, i>>
  /\ UNCHANGED <<args, src_pcb, traces, traces_total, locked_num,
                 existing_num, stdout, exit_status, disk>>

\* Variant: a failed insertion takes back the traces inserted before it.
AddTrace_rollback ==
  /\ pc = "add"
  /\ i <= Len(traces)
  /\ \/ /\ dst_pcb' = Append(dst_pcb, traces[i])
        /\ i' = i + 1
        /\ UNCHANGED <<pc, exc>>
     \/ /\ Raise(ErgogenHelperException("Could not copy trace"))
        /\ dst_pcb' = SubSeq(dst_pcb, 1, Len(dst_pcb) - (i - 1))
        /\ i' = i
  /\ UNCHANGED <<args, src_pcb, traces, traces_total, locked_num,
                 existing_num, stdout, exit_status, disk>>

\* copy_traces: one iteration of `for trace in traces: dst_pcb.Add(trace)`
AddTrace ==
  /\ pc = "add"
  /\ i <= Len(traces)
  /\ \/ /\ dst_pcb' = Append(dst_pcb, traces[i])
        /\ i' = i + 1
        /\ UNCHANGED <<pc, exc>>
     \/ /\ Raise(ErgogenHelperException("Could not copy trace"))
        /\ UNCHANGED <<dst_pcb, i>>
  /\ UNCHANGED <<args, src_pcb, traces, traces_total, locked_num,
                 existing_num, stdout, exit_status, disk>>

\* copy_traces: print(f'Copied {len(traces)} / {traces_total} traces.')
PrintCopied ==
  /\ pc = "add"
  /\ i > Len(traces)
  /\ stdout' = Append(stdout, Line("Copied", "", Len(traces), traces_total))
  /\ pc' = "save"
  /\ UNCHANGED <<args, src_pcb, dst_pcb, locals, exc, exit_status, disk>>

\* lock_traces(pcb)
LockTraces ==
  /\ pc = "lock"
  /\ \/ /\ dst_pcb' = lock_all(dst_pcb)
        /\ stdout' = Append(stdout, Line("Locked", "", Len(dst_pcb), 0))
        /\ pc' = "save"
        /\ exc' = exc
     \/ /\ Raise(ErgogenHelperException("ERROR: Could not get traces"))
        /\ UNCHANGED <<dst_pcb, stdout>>
  /\ UNCHANGED <<args, src_pcb, locals, exit_status, disk>>

\* Variant: a failed backup copy is ignored and the save goes on.
SaveBackup_ignore_failure ==
  /\ pc = "save"
  /\ IF (~no_backup) = TRUE /\ disk_dst.state # "absent"
       THEN \/ /\ disk_bak' = disk_dst
               /\ fs_log' = Append(fs_log, "copy ok")
            \/ /\ disk_bak' \in {disk_bak, Corrupt}
               /\ fs_log' = Append(fs_log, "copy failed")
       ELSE UNCHANGED <<disk_bak, fs_log>>
  /\ pc' = "write"
  /\ UNCHANGED <<args, src_pcb, dst_pcb, locals, exc, stdout, exit_status,
                 disk_src, disk_dst>>

\* save_pcb: the backup branch
SaveBackup ==
  /\ pc = "save"
  /\ IF (~no_backup) = TRUE /\ disk_dst.state # "absent"
       THEN \/ /\ disk_bak' = disk_dst
               /\ fs_log' = Append(fs_log, "copy ok")
               /\ pc' = "write"
               /\ exc' = exc
            \/ /\ disk_bak' \in {disk_bak, Corrupt}
               /\ fs_log' = Append(fs_log, "copy failed")
               /\ Raise(ErgogenHelperException("Could not backup pcb"))
       ELSE /\ pc' = "write"
            /\ UNCHANGED <<disk_bak, fs_log, exc>>
  /\ UNCHANGED <<args, src_pcb, dst_pcb, locals, stdout, exit_status,
                 disk_src, disk_dst>>

\* save_pcb: pcb.Save(pcb_path), then the command returns
SaveWrite ==
  /\ pc = "write"
  /\ \/ /\ disk_dst' = Intact(dst_pcb)
        /\ fs_log' = Append(fs_log, "save ok")
        /\ pc' = "exited"
        /\ exit_status' = 0
        /\ exc' = exc
     \/ /\ disk_dst' \in {disk_dst, Corrupt}
        /\ fs_log' = Append(fs_log, "save failed")
        /\ Raise(ErgogenHelperException("Could not save pcb"))
        /\ exit_status' = exit_status
  /\ UNCHANGED <<args, src_pcb, dst_pcb, locals, stdout, disk_src, disk_bak>>

\* except ErgogenHelperException as e: print(f'ERROR: {e}'); exit(-1)
HandleException ==
  /\ pc = "raised"
  /\ exc.type = "ErgogenHelperException"
  /\ stdout' = Append(stdout, Line("ERROR", exc.msg, 0, 0))
  /\ exit_status' = ExitError
  /\ pc' = "exited"
  /\ UNCHANGED <<args, src_pcb, dst_pcb, locals, exc, disk>>

\* Any other exception passes the except clause and ends the interpreter.
UncaughtException ==
  /\ pc = "raised"
  /\ exc.type # "ErgogenHelperException"
  /\ exit_status' = ExitUncaught
  /\ pc' = "exited"
  /\ UNCHANGED <<args, src_pcb, dst_pcb, locals, exc, stdout, disk>>

Next ==
  \/ LoadSrc
  \/ LoadDst
  \/ LoadPcb
  \/ GetTraces
  \/ FilterLocked
  \/ FilterExisting
  \/ AddTrace
  \/ PrintCopied
  \/ LockTraces
  \/ SaveBackup
  \/ SaveWrite
  \/ HandleException
  \/ UncaughtException

Spec == Init /\ [][Next]_vars

TypeOK ==
  /\ cmd \in Cmds
  /\ pc \in {"load_src", "load_dst", "load_pcb", "get_traces",
             "filter_locked", "filter_existing", "add", "lock", "save",
             "write", "raised", "exited"}
  /\ i \in 1..(MaxSrc + 1)
  /\ Len(dst_pcb) <= MaxSrc + MaxDst
----------------------------------------------------------------------------
\* Vocabulary of the properties

\* Geometric equality of section 4.1: both endpoints equal, in order.
SameGeometry(a, b) == a.start = b.start /\ a.end = b.end

\* The destination's traces before the merge: the file is rewritten only by
\* SaveWrite, so up to there it still holds what LoadBoard returned.
PreDst == disk_dst.content

\* copy_traces has returned and save_pcb has not begun.
MergeDone == cmd = "copy-traces" /\ pc = "save"

\* The numbers of the last line printed.
LastLine == stdout[Len(stdout)]
Copied == LastLine.n

InPreDst(t) == \E j \in 1..Len(PreDst) : SameGeometry(t, PreDst[j])

Survives(t) == /\ unlocked_only => ~t.locked
               /\ ~InPreDst(t)

Survivors == {k \in 1..Len(src_pcb) : Survives(src_pcb[k])}

Appended == (Len(PreDst) + 1)..Len(dst_pcb)

Last(q) == q[Len(q)]

----------------------------------------------------------------------------
\* C1: when a backup is requested and the file exists, the file is written
\* only right after a successful backup copy whose content is the file's;
\* a failed copy raises the helper's exception, no write is attempted after
\* it and the file stays as it was.
C1_BackupBeforeOverwrite ==
  [][ /\ (fs_log' # fs_log /\ Last(fs_log') \in {"save ok", "save failed"}
            /\ ~no_backup /\ disk_dst.state # "absent")
         => /\ fs_log # <<>>
            /\ Last(fs_log) = "copy ok"
            /\ disk_bak = disk_dst
      /\ (disk_dst' # disk_dst)
         => /\ fs_log' # fs_log
            /\ Last(fs_log') \in {"save ok", "save failed"}
      /\ (fs_log' # fs_log /\ Last(fs_log') = "copy failed")
         => /\ pc' = "raised"
            /\ exc' = ErgogenHelperException("Could not backup pcb")
            /\ disk_dst' = disk_dst
      /\ (fs_log # <<>> /\ Last(fs_log) = "copy failed")
         => /\ fs_log' = fs_log
            /\ disk_dst' = disk_dst
    ]_vars

C1_Witness ==
  /\ pc = "exited"
  /\ ~no_backup
  /\ fs_log = <<"copy failed">>
  /\ disk_dst.state = "ok"
  /\ dst_pcb # disk_dst.content

\* C2: the line "Copied n / total" of a merge satisfies
\* n + locked_num + existing_num = total, total is the number of source
\* traces, and locked_num is 0 when unlocked_only is false.
C2_MergeConservation ==
  \A k \in 1..Len(stdout) :
    stdout[k].kind = "Copied"
      => /\ stdout[k].n + locked_num + existing_num = stdout[k].total
         /\ stdout[k].total = Len(src_pcb)
         /\ (unlocked_only = FALSE) => locked_num = 0

C2_Witness ==
  /\ MergeDone
  /\ Copied > 0
  /\ locked_num > 0
  /\ existing_num > 0
  /\ Copied + locked_num + existing_num = Len(src_pcb)

\* C3 as stated: merging a board into a board with the same traces copies
\* nothing, skips every trace as existing, and leaves the board as it was,
\* whatever unlocked_only is.
C3_SelfMergeAllExisting ==
  (MergeDone /\ src_pcb = PreDst)
    => /\ Copied = 0
       /\ existing_num = traces_total
       /\ dst_pcb = PreDst

\* C3 amended: merging a board into a board with the same traces copies
\* nothing and leaves the board as it was; the traces skipped as existing
\* are those the lock filter left, total - locked_num, which is the total
\* when unlocked_only is false.
C3_SelfMergeAmended ==
  (MergeDone /\ src_pcb = PreDst)
    => /\ Copied = 0
       /\ existing_num = traces_total - locked_num
       /\ (unlocked_only = FALSE) => existing_num = traces_total
       /\ dst_pcb = PreDst

C3_Witness ==
  /\ MergeDone
  /\ src_pcb = PreDst
  /\ unlocked_only
  /\ locked_num > 0
  /\ existing_num > 0

\* C4: two traces are equal exactly when their unordered endpoint pairs are
\* equal, whatever their locked flags, and equality is symmetric.
C4_TraceIdentityUnordered ==
  \A a \in 1..Len(src_pcb), b \in 1..Len(dst_pcb) :
    /\ check_traces_equal(src_pcb[a], dst_pcb[b])
         = ({src_pcb[a].start, src_pcb[a].end}
              = {dst_pcb[b].start, dst_pcb[b].end})
    /\ check_traces_equal(src_pcb[a], dst_pcb[b])
         = check_traces_equal(dst_pcb[b], src_pcb[a])

\* C5: with unlocked_only the lock filter runs first: after it the survivors
\* plus locked_num are all the source traces and no survivor is locked;
\* locked_num counts every locked source trace, existing_num only the
\* unlocked source traces equal to a destination trace, and no locked trace
\* is inserted.
C5_LockFilterFirst ==
  (cmd = "copy-traces" /\ unlocked_only)
    => /\ (pc = "filter_existing")
          => /\ Len(traces) + locked_num = Len(src_pcb)
             /\ \A k \in 1..Len(traces) : ~traces[k].locked
       /\ (pc \in {"add", "save"})
          => /\ locked_num
                  = Cardinality({k \in 1..Len(src_pcb) : src_pcb[k].locked})
             /\ existing_num
                  = Cardinality({k \in 1..Len(src_pcb) :
                                   ~src_pcb[k].locked /\ InPreDst(src_pcb[k])})
             /\ \A k \in Appended : ~dst_pcb[k].locked

C5_Witness ==
  /\ MergeDone
  /\ unlocked_only
  /\ \E k \in 1..Len(src_pcb) : src_pcb[k].locked /\ InPreDst(src_pcb[k])
  /\ \E k \in 1..Len(src_pcb) : ~src_pcb[k].locked /\ InPreDst(src_pcb[k])
  /\ locked_num = 1
  /\ existing_num = 1

\* C6: a merge that returns leaves the source as loaded and the destination
\* is its pre-merge traces followed by the surviving source traces in source
\* order; the number copied is the number appended.
C6_MergeAppendsSurvivors ==
  /\ (cmd = "copy-traces" /\ pc \notin {"load_src"} /\ disk_src.state = "ok")
       => src_pcb = disk_src.content
  /\ MergeDone
       => /\ dst_pcb = PreDst \o SelectSeq(src_pcb, Survives)
          /\ Copied = Len(dst_pcb) - Len(PreDst)

C6_Witness ==
  /\ MergeDone
  /\ Len(PreDst) > 0
  /\ Len(dst_pcb) > Len(PreDst)
  /\ Copied < Len(src_pcb)

\* C7: when the insertion of the k-th survivor fails, the k-1 survivors
\* before it stay appended, none after it is inserted, the command ends
\* with the error and neither a backup nor a write is attempted.
C7_InsertionFailure ==
  (exc = ErgogenHelperException("Could not copy trace"))
    => /\ pc \in {"raised", "exited"}
       /\ i <= Len(traces)
       /\ dst_pcb = PreDst \o SubSeq(traces, 1, i - 1)
       /\ fs_log = <<>>
       /\ disk_bak = Absent
       /\ disk_dst.state = "ok"
       /\ \A k \in 1..Len(stdout) : stdout[k].kind # "Copied"
       /\ (pc = "exited") => exit_status # 0

C7_Witness ==
  /\ exc = ErgogenHelperException("Could not copy trace")
  /\ pc = "exited"
  /\ i = 2
  /\ Len(traces) = 3
  /\ Len(PreDst) > 0

\* C8: a command that raised an error ends with a non-zero status and an
\* ERROR line on standard output; one that raised none ends with status 0.
C8_ErrorsReported ==
  (pc = "exited")
    => IF exc = NoExc
         THEN exit_status = 0
         ELSE /\ exit_status # 0
              /\ \E k \in 1..Len(stdout) : stdout[k].kind = "ERROR"

\* C9: after lock_traces every trace of the board is locked, the endpoints
\* and the number of traces are as before, the count printed is the number
\* of traces, and locking again gives the same board and the same count.
C9_LockAllIdempotent ==
  (cmd = "lock-traces" /\ pc = "save")
    => /\ Len(dst_pcb) = Len(PreDst)
       /\ \A k \in 1..Len(dst_pcb) :
            /\ dst_pcb[k].locked
            /\ SameGeometry(dst_pcb[k], PreDst[k])
       /\ LastLine.kind = "Locked"
       /\ LastLine.n = Len(dst_pcb)
       /\ lock_all(dst_pcb) = dst_pcb
       /\ Len(lock_all(dst_pcb)) = LastLine.n

C9_Witness ==
  /\ cmd = "lock-traces"
  /\ pc = "save"
  /\ \E k \in 1..Len(PreDst) : PreDst[k].locked
  /\ \E k \in 1..Len(PreDst) : ~PreDst[k].locked

====
